---- MODULE Spec2Model ----
(***************************************************************************)
(* Model of sanitizeParametersForGemini (src/unnamed/part_003): the        *)
(* in-place, recursive sanitizer of a Gemini parameter schema.  A schema   *)
(* is a graph of node objects; the recursion of the function is modelled   *)
(* by an explicit call stack, one frame per invocation, so that cycles,    *)
(* shared nodes and the visited set are part of the state.                 *)
(***************************************************************************)
EXTENDS Integers, Sequences, FiniteSets, TLC

\* ------------------------------------------------------------------ bounds
MaxNodes == 2
MaxBuild == 2
MaxCalls == 2
StackLimit == 5

Nodes   == 1..MaxNodes
CallIds == 1..MaxCalls

\* ------------------------------------------------------------ schema values
\* A key that the object does not have, and a key bound to undefined.
NoKey == "<no key>"
Undef == "<undefined>"

\* Type.STRING, Type.OBJECT of @google/genai
TypeSTRING == "STRING"
TypeOBJECT == "OBJECT"

\* A slot that holds a schema (a reference to a node object), a literal
\* boolean schema, or nothing.
SchemaRef(n)  == [tag |-> "schema", id |-> n, val |-> FALSE]
BoolSchema(b) == [tag |-> "boolean", id |-> 0, val |-> b]
Undefined     == [tag |-> "undefined", id |-> 0, val |-> FALSE]

SlotValues == {SchemaRef(n) : n \in Nodes} \cup {BoolSchema(b) : b \in BOOLEAN}

\* The empty schema object {}.
EmptySchema ==
  [type |-> NoKey, format |-> NoKey, default |-> NoKey,
   hasAnyOf |-> FALSE, anyOf |-> <<>>,
   items |-> Undefined,
   hasProperties |-> FALSE, properties |-> <<>>]

\* The type/format pairs a schema literal is built with.
Formats == {"", "enum", "date-time", "uuid"}
Literals ==
  {[type |-> TypeSTRING, format |-> f] : f \in Formats \cup {NoKey}}
    \cup {[type |-> TypeOBJECT, format |-> f] : f \in {NoKey, "uuid"}}
    \cup {[type |-> NoKey, format |-> "uuid"]}

VARIABLES
  schema,     \* the node objects: schema[n] is the object with identity n
  built,      \* number of construction steps the caller has made
  status,     \* per top-level call: "idle", "running", "returned", "raised"
  root,       \* per top-level call: its schema argument
  visited,    \* per top-level call: the Set<Schema> of the call
  stack,      \* per top-level call: the invocations in progress
  processed,  \* per top-level call: how often each node passed the guard
  pre,        \* per top-level call: the node objects when the call started
  post,       \* per top-level call: the node objects when the call returned
  step,       \* migration scripts: the statement the running script is at
  disk,       \* migration scripts: the migrations folder (files, journal)
  db,         \* migration scripts: the drizzle.__drizzle_migrations table
  local,      \* migration scripts: the local variables of the script
  start       \* migration scripts: disk and db when the script started

sanitizerVars == <<schema, built, status, root, visited, stack, processed, pre, post>>
scriptVars == <<step, disk, db, local, start>>
vars == <<sanitizerVars, scriptVars>>
callVars == <<status, root, visited, stack, processed, pre, post>>

\* ------------------------------------------------------- the function body
\* (variant) the guard does not test for a missing argument
IsFalsy_unchecked(arg) == FALSE

\* !schema  (line 18)
IsFalsy(arg) == arg.tag = "undefined" \/ (arg.tag = "boolean" /\ ~arg.val)

\* (variant) the guard never finds a node in the set
VisitedHas_never(vis, arg) == FALSE

\* (variant) the guard finds a node when the set holds one with the same content
VisitedHas_byContent(vis, arg) ==
  arg.tag = "schema" /\ \E m \in vis : schema[m] = schema[arg.id]

\* visited.has(schema)  (line 18)
VisitedHas(vis, arg) == arg.tag = "schema" /\ arg.id \in vis

\* (variant) the node is not added to the set
VisitedAdd_dropped(vis, n) == vis

\* visited.add(schema)  (line 21)
VisitedAdd(vis, n) == vis \cup {n}

\* (variant) if (schema.anyOf?.length): an empty anyOf does not count
DeclaresAnyOf_nonEmpty(node) == node.hasAnyOf /\ Len(node.anyOf) >= 1

\* if (schema.anyOf)  (line 23): an array, even an empty one, is truthy
DeclaresAnyOf(node) == node.hasAnyOf

\* (variant) a default that is already undefined has its key deleted
ClearedDefault_deleting(d) == IF d = Undef THEN NoKey ELSE Undef

\* schema.default = undefined  (line 25)
ClearedDefault(d) == Undef

\* (variant) the entries are not tested for being boolean schemas
IsNotBoolean_any(e) == TRUE

\* typeof item !== 'boolean'  (lines 27, 32, 37), for a slot that holds a value
IsNotBoolean(e) == e.tag # "boolean"

\* (variant) schema.items is not recursed into
RecurseItems_skipped(node) == FALSE

\* schema.items && typeof schema.items !== 'boolean'  (line 32)
RecurseItems(node) ==
  /\ ~(node.items.tag = "undefined" \/ (node.items.tag = "boolean" /\ ~node.items.val))
  /\ IsNotBoolean(node.items)

\* if (schema.properties)  (line 35)
DeclaresProperties(node) == node.hasProperties

\* (variant) 'date-time' is missing from the supported formats
UnsupportedFormat_noDateTime(f) == f \notin {NoKey, Undef, ""} /\ f # "enum"

\* schema.format && schema.format !== 'enum' && schema.format !== 'date-time'
\* (line 44): undefined and the empty string are falsy
UnsupportedFormat(f) == f \notin {NoKey, Undef, ""} /\ f # "enum" /\ f # "date-time"

\* (variant) the format rule is applied whatever the type
IsStringType_any(node) == TRUE

\* schema.type === Type.STRING  (line 43)
IsStringType(node) == node.type = TypeSTRING

\* (variant) delete schema.format
ClearedFormat_deleted(f) == NoKey

\* schema.format = undefined  (line 45)
ClearedFormat(f) == Undef

\* One invocation in progress: its argument and the statement it is at.
Frame(arg) == [arg |-> arg, pc |-> "entry", idx |-> 0]

\* The statement reached after the anyOf block, the items block and the
\* properties block (lines 23-41): the next loop iteration or block whose
\* condition holds.
AfterItems(node) ==
  IF DeclaresProperties(node) /\ Len(node.properties) >= 1
    THEN [pc |-> "properties", idx |-> 1]
    ELSE [pc |-> "format", idx |-> 0]

AfterAnyOf(node) ==
  IF RecurseItems(node) THEN [pc |-> "items", idx |-> 0] ELSE AfterItems(node)

\* (variant) the format rule directly follows the guard
AfterGuard_formatFirst(node) == [pc |-> "format", idx |-> 0]

AfterGuard(node) ==
  IF DeclaresAnyOf(node) /\ Len(node.anyOf) >= 1
    THEN [pc |-> "anyOf", idx |-> 1]
    ELSE AfterAnyOf(node)

\* A configuration of one call: the heap it mutates, its visited set, its
\* stack, its count of processed nodes, and whether it has thrown.
Config(sch, vis, stk, cnt) ==
  [schema |-> sch, visited |-> vis, stack |-> stk, processed |-> cnt, raised |-> FALSE]

TopOf(stk) == stk[Len(stk)]
Pop(stk) == SubSeq(stk, 1, Len(stk) - 1)
SetTop(stk, at) ==
  [stk EXCEPT ![Len(stk)] = [arg |-> TopOf(stk).arg, pc |-> at.pc, idx |-> at.idx]]

\* sanitizeParametersForGemini(item, visited): a new invocation; the engine
\* throws a RangeError when the call stack is exhausted.
Invoke(cfg, stk, arg) ==
  IF Len(stk) >= StackLimit
    THEN [cfg EXCEPT !.raised = TRUE]
    ELSE [cfg EXCEPT !.stack = Append(stk, Frame(arg))]

\* Lines 17-25: the guard, visited.add, and the clearing of default.
EnterStep(cfg) ==
  LET f == TopOf(cfg.stack)
      n == f.arg.id
  IN IF IsFalsy(f.arg) \/ VisitedHas(cfg.visited, f.arg)
       THEN [cfg EXCEPT !.stack = Pop(cfg.stack)]
     ELSE IF f.arg.tag = "undefined"
       THEN [cfg EXCEPT !.raised = TRUE]   \* TypeError: property of undefined
     ELSE IF f.arg.tag = "boolean"
       \* the primitive true is added to the set and has no property to act on
       THEN [cfg EXCEPT !.visited = VisitedAdd(cfg.visited, f.arg.id),
                        !.stack = Pop(cfg.stack)]
     ELSE LET node == cfg.schema[n]
              sch  == IF DeclaresAnyOf(node)
                        THEN [cfg.schema EXCEPT ![n].default = ClearedDefault(node.default)]
                        ELSE cfg.schema
          IN [cfg EXCEPT !.schema = sch,
                         !.visited = VisitedAdd(cfg.visited, n),
                         !.processed[n] = @ + 1,
                         !.stack = SetTop(cfg.stack, AfterGuard(node))]

\* Lines 26-30: one iteration of the loop over schema.anyOf.
AnyOfStep(cfg) ==
  LET f == TopOf(cfg.stack)
      node == cfg.schema[f.arg.id]
      item == node.anyOf[f.idx]
      at == IF f.idx < Len(node.anyOf)
              THEN [pc |-> "anyOf", idx |-> f.idx + 1]
              ELSE AfterAnyOf(node)
      stk == SetTop(cfg.stack, at)
  IN IF IsNotBoolean(item) THEN Invoke(cfg, stk, item) ELSE [cfg EXCEPT !.stack = stk]

\* Lines 32-34: the recursion into schema.items.
ItemsStep(cfg) ==
  LET f == TopOf(cfg.stack)
      node == cfg.schema[f.arg.id]
  IN Invoke(cfg, SetTop(cfg.stack, AfterItems(node)), node.items)

\* Lines 36-40: one iteration of the loop over Object.values(schema.properties).
PropertiesStep(cfg) ==
  LET f == TopOf(cfg.stack)
      node == cfg.schema[f.arg.id]
      item == node.properties[f.idx]
      at == IF f.idx < Len(node.properties)
              THEN [pc |-> "properties", idx |-> f.idx + 1]
              ELSE [pc |-> "format", idx |-> 0]
      stk == SetTop(cfg.stack, at)
  IN IF IsNotBoolean(item) THEN Invoke(cfg, stk, item) ELSE [cfg EXCEPT !.stack = stk]

\* Lines 42-47: the format rule, then the return.
FormatStep(cfg) ==
  LET f == TopOf(cfg.stack)
      n == f.arg.id
      node == cfg.schema[n]
      sch == IF IsStringType(node) /\ UnsupportedFormat(node.format)
               THEN [cfg.schema EXCEPT ![n].format = ClearedFormat(node.format)]
               ELSE cfg.schema
  IN [cfg EXCEPT !.schema = sch, !.stack = Pop(cfg.stack)]

\* The statement the innermost invocation is at decides the step.
StepOf(cfg) ==
  LET pc == TopOf(cfg.stack).pc
  IN CASE pc = "entry" -> EnterStep(cfg)
       [] pc = "anyOf" -> AnyOfStep(cfg)
       [] pc = "items" -> ItemsStep(cfg)
       [] pc = "properties" -> PropertiesStep(cfg)
       [] pc = "format" -> FormatStep(cfg)

\* sanitizeParametersForGemini(schema) run from its call to its return (or
\* to the exception that ends it), with nothing else running.
RECURSIVE RunToEnd(_)
RunToEnd(cfg) ==
  IF cfg.raised \/ cfg.stack = <<>> THEN cfg ELSE RunToEnd(StepOf(cfg))

SanitizedAlone(sch, arg) ==
  RunToEnd(Config(sch, {}, <<Frame(arg)>>, [n \in Nodes |-> 0])).schema

\* ------------------------------------------------------- graph vocabulary
Range(seq) == {seq[i] : i \in DOMAIN seq}

\* The nodes a node refers to through anyOf, items or properties.
Children(node) ==
  {e.id : e \in {x \in Range(node.anyOf) \cup {node.items} \cup Range(node.properties) :
                   x.tag = "schema"}}

RECURSIVE Closure(_, _)
Closure(sch, S) ==
  LET T == S \cup UNION {Children(sch[n]) : n \in S}
  IN IF T = S THEN S ELSE Closure(sch, T)

\* The nodes reachable from the argument of a call (none for no argument).
Reach(sch, arg) == IF arg.tag = "schema" THEN Closure(sch, {arg.id}) ELSE {}

\* ---------------------------------------------------------------- actions
\* No migration script runs while the sanitizer is exercised.
NoScript ==
  /\ step = "none"
  /\ disk = <<>>
  /\ db = <<>>
  /\ local = <<>>
  /\ start = <<>>

\* (variant) one Set<Schema> serves every call
VisitedOf_shared(vis, c) == UNION {vis[d] : d \in DOMAIN vis}

\* The Set<Schema> a call works with: its own (the default parameter
\* `visited = new Set<Schema>()` is evaluated anew at every top-level call).
VisitedOf(vis, c) == vis[c]

ConfigOf(c) == Config(schema, VisitedOf(visited, c), stack[c], processed[c])

Store(c, cfg) ==
  /\ schema' = cfg.schema
  /\ visited' = [visited EXCEPT ![c] = cfg.visited]
  /\ stack' = [stack EXCEPT ![c] = cfg.stack]
  /\ processed' = [processed EXCEPT ![c] = cfg.processed]
  /\ status' = [status EXCEPT ![c] =
                  IF cfg.raised THEN "raised"
                  ELSE IF cfg.stack = <<>> THEN "returned" ELSE "running"]
  /\ post' = [post EXCEPT ![c] = cfg.schema]
  /\ UNCHANGED <<built, root, pre, scriptVars>>

At(c, pc) == status[c] = "running" /\ TopOf(stack[c]).pc = pc

Enter(c)      == At(c, "entry") /\ Store(c, EnterStep(ConfigOf(c)))
AnyOf(c)      == At(c, "anyOf") /\ Store(c, AnyOfStep(ConfigOf(c)))
Items(c)      == At(c, "items") /\ Store(c, ItemsStep(ConfigOf(c)))
Properties(c) == At(c, "properties") /\ Store(c, PropertiesStep(ConfigOf(c)))
Format(c)     == At(c, "format") /\ Store(c, FormatStep(ConfigOf(c)))

\* sanitizeParametersForGemini(schema): a top-level call.
Begin(c, arg) ==
  /\ status[c] = "idle"
  /\ status' = [status EXCEPT ![c] = "running"]
  /\ root' = [root EXCEPT ![c] = arg]
  /\ visited' = [visited EXCEPT ![c] = {}]
  /\ stack' = [stack EXCEPT ![c] = <<Frame(arg)>>]
  /\ pre' = [pre EXCEPT ![c] = schema]
  /\ post' = [post EXCEPT ![c] = schema]
  /\ UNCHANGED <<schema, built, processed, scriptVars>>

NoneStarted == \A c \in CallIds : status[c] = "idle"

\* The caller calls the function on nothing or on the schema it built (node
\* identities are interchangeable: the root is the first node), and calls it
\* again on the same argument when it has returned.
RootArgs == {Undefined, SchemaRef(1)}

Call(c) ==
  /\ \A d \in CallIds : d < c => status[d] = "returned"
  /\ IF c = 1
       THEN \E arg \in RootArgs : Begin(c, arg)
       ELSE Begin(c, root[1])

\* The caller builds the schema before it calls the function.
CanBuild == NoneStarted /\ built < MaxBuild

SetLiteral(n) ==
  /\ CanBuild
  /\ schema[n].type = NoKey /\ schema[n].format = NoKey
  /\ \E l \in Literals :
       schema' = [schema EXCEPT ![n].type = l.type, ![n].format = l.format]
  /\ built' = built + 1
  /\ UNCHANGED <<callVars, scriptVars>>

SetDefault(n) ==
  /\ CanBuild
  /\ schema[n].default = NoKey
  /\ schema' = [schema EXCEPT ![n].default = "value"]
  /\ built' = built + 1
  /\ UNCHANGED <<callVars, scriptVars>>

SetAnyOf(n) ==
  /\ CanBuild
  /\ \/ ~schema[n].hasAnyOf /\ schema' = [schema EXCEPT ![n].hasAnyOf = TRUE]
     \/ \E e \in SlotValues :
          schema' = [schema EXCEPT ![n].hasAnyOf = TRUE, ![n].anyOf = Append(@, e)]
  /\ built' = built + 1
  /\ UNCHANGED <<callVars, scriptVars>>

SetItems(n) ==
  /\ CanBuild
  /\ schema[n].items = Undefined
  /\ \E e \in SlotValues : schema' = [schema EXCEPT ![n].items = e]
  /\ built' = built + 1
  /\ UNCHANGED <<callVars, scriptVars>>

SetProperty(n) ==
  /\ CanBuild
  /\ \E e \in SlotValues :
       schema' = [schema EXCEPT ![n].hasProperties = TRUE, ![n].properties = Append(@, e)]
  /\ built' = built + 1
  /\ UNCHANGED <<callVars, scriptVars>>

Init ==
  /\ schema = [n \in Nodes |-> EmptySchema]
  /\ built = 0
  /\ status = [c \in CallIds |-> "idle"]
  /\ root = [c \in CallIds |-> Undefined]
  /\ visited = [c \in CallIds |-> {}]
  /\ stack = [c \in CallIds |-> <<>>]
  /\ processed = [c \in CallIds |-> [n \in Nodes |-> 0]]
  /\ pre = [c \in CallIds |-> schema]
  /\ post = [c \in CallIds |-> schema]
  /\ NoScript

Build ==
  \E n \in Nodes : SetLiteral(n) \/ SetDefault(n) \/ SetAnyOf(n) \/ SetItems(n) \/ SetProperty(n)

Run == \E c \in CallIds : Enter(c) \/ AnyOf(c) \/ Items(c) \/ Properties(c) \/ Format(c)

Next == Build \/ (\E c \in CallIds : Call(c)) \/ Run

Spec == Init /\ [][Next]_vars

\* Two callers, each with a schema of its own (no node in common), whose
\* calls are interleaved statement by statement.
TreeOf(arg) == Reach(schema, arg)

Callers == {1, 2}

CallOnOwnTree(c) ==
  /\ c \in Callers \cap Nodes
  /\ \A d \in CallIds \ {c} :
       status[d] = "idle" \/ TreeOf(SchemaRef(c)) \cap TreeOf(root[d]) = {}
  /\ Begin(c, SchemaRef(c))

NextPar == Build \/ (\E c \in CallIds : CallOnOwnTree(c)) \/ Run

SpecPar == Init /\ [][NextPar]_vars

\* A caller whose node objects are all built from one literal, such as the
\* `id: { type: STRING, format: 'uuid' }` written twice in the nested test
\* schema, and who then links them.
TwinLiterals ==
  {l \in Literals : l.type = TypeSTRING /\ l.format \in {"uuid", "date-time"}}

TwinsInit ==
  /\ \E l \in TwinLiterals :
       schema = [n \in Nodes |-> [EmptySchema EXCEPT !.type = l.type, !.format = l.format]]
  /\ built = 0
  /\ status = [c \in CallIds |-> "idle"]
  /\ root = [c \in CallIds |-> Undefined]
  /\ visited = [c \in CallIds |-> {}]
  /\ stack = [c \in CallIds |-> <<>>]
  /\ processed = [c \in CallIds |-> [n \in Nodes |-> 0]]
  /\ pre = [c \in CallIds |-> schema]
  /\ post = [c \in CallIds |-> schema]
  /\ NoScript

TwinsBuild ==
  \E n \in Nodes : SetDefault(n) \/ SetAnyOf(n) \/ SetItems(n) \/ SetProperty(n)

TwinsNext == TwinsBuild \/ (\E c \in CallIds : Call(c)) \/ Run

SpecTwins == TwinsInit /\ [][TwinsNext]_vars

\* ------------------------------------------- the traversal in any order
\* The same function with the order of its loops and blocks left open: an
\* invocation past the guard holds the entries it has still to go through
\* (todo) and takes them in any order; the format rule stays last.
Slot(kind, idx) == [kind |-> kind, idx |-> idx]

Slots(node) ==
  (IF DeclaresAnyOf(node)
     THEN {Slot("anyOf", i) : i \in DOMAIN node.anyOf} ELSE {})
  \cup (IF RecurseItems(node) THEN {Slot("items", 0)} ELSE {})
  \cup (IF DeclaresProperties(node)
          THEN {Slot("properties", i) : i \in DOMAIN node.properties} ELSE {})

EntryAt(node, s) ==
  CASE s.kind = "anyOf" -> node.anyOf[s.idx]
    [] s.kind = "items" -> node.items
    [] s.kind = "properties" -> node.properties[s.idx]

\* The place of an entry in the order of the code: anyOf, items, properties.
BlockOf(s) == CASE s.kind = "anyOf" -> 1 [] s.kind = "items" -> 2 [] s.kind = "properties" -> 3

ComesBefore(s, t) ==
  BlockOf(s) < BlockOf(t) \/ (BlockOf(s) = BlockOf(t) /\ s.idx < t.idx)

\* (variant) a loop ends after its first entry
Remaining_break(todo, s) == {}

\* for (const item of ...): the loop goes on with the other entries
Remaining(todo, s) == todo \ {s}

OrderFrame(arg, todo) ==
  [arg |-> arg, pc |-> IF todo = {} THEN "format" ELSE "children", idx |-> 0,
   todo |-> todo]

\* Lines 17-25, then the entries of the node are all still to go through.
OrderEnterStep(cfg) ==
  LET r == EnterStep(cfg)
      f == TopOf(cfg.stack)
  IN IF r.raised \/ Len(r.stack) < Len(cfg.stack) THEN r
     ELSE [r EXCEPT !.stack[Len(cfg.stack)] =
                      OrderFrame(f.arg, Slots(cfg.schema[f.arg.id]))]

\* Lines 26-40 for one entry: the recursion unless it is a boolean schema.
OrderChildStep(cfg, s) ==
  LET f == TopOf(cfg.stack)
      item == EntryAt(cfg.schema[f.arg.id], s)
      stk == [cfg.stack EXCEPT ![Len(cfg.stack)] =
                OrderFrame(f.arg, Remaining(f.todo, s))]
  IN IF IsNotBoolean(item) THEN Invoke(cfg, stk, item) ELSE [cfg EXCEPT !.stack = stk]

\* local.reordered: some entry was taken before one the code takes earlier.
OrderInit ==
  /\ \E l \in TwinLiterals :
       schema = [n \in Nodes |-> [EmptySchema EXCEPT !.type = l.type, !.format = l.format]]
  /\ built = 0
  /\ status = [c \in CallIds |-> "idle"]
  /\ root = [c \in CallIds |-> Undefined]
  /\ visited = [c \in CallIds |-> {}]
  /\ stack = [c \in CallIds |-> <<>>]
  /\ processed = [c \in CallIds |-> [n \in Nodes |-> 0]]
  /\ pre = [c \in CallIds |-> schema]
  /\ post = [c \in CallIds |-> schema]
  /\ step = "none" /\ disk = <<>> /\ db = <<>> /\ start = <<>>
  /\ local = [reordered |-> FALSE]

OrderEnter(c) == At(c, "entry") /\ Store(c, OrderEnterStep(ConfigOf(c)))

OrderChild(c) ==
  /\ At(c, "children")
  /\ \E s \in TopOf(stack[c]).todo :
       LET cfg == OrderChildStep(ConfigOf(c), s)
       IN /\ schema' = cfg.schema
          /\ visited' = [visited EXCEPT ![c] = cfg.visited]
          /\ stack' = [stack EXCEPT ![c] = cfg.stack]
          /\ processed' = [processed EXCEPT ![c] = cfg.processed]
          /\ status' = [status EXCEPT ![c] = IF cfg.raised THEN "raised" ELSE "running"]
          /\ post' = [post EXCEPT ![c] = cfg.schema]
          /\ local' = [local EXCEPT !.reordered =
                         @ \/ \E t \in TopOf(stack[c]).todo : ComesBefore(t, s)]
          /\ UNCHANGED <<built, root, pre, step, disk, db, start>>

OrderRun == \E c \in CallIds : OrderEnter(c) \/ OrderChild(c) \/ Format(c)

OrderNext == TwinsBuild \/ Call(1) \/ OrderRun

SpecOrder == OrderInit /\ [][OrderNext]_vars

Started(c)  == status[c] # "idle"
Returned(c) == status[c] = "returned"
ReachOf(c)  == Reach(pre[c], root[c])

\* A format the target API rejects on a STRING: non-empty, not 'enum', not 'date-time'.
Rejected(f) == f \notin {NoKey, Undef, "", "enum", "date-time"}

\* ----------------------------------------------------------------- claims
\* C1: after the call returns, every node reachable from root whose type is
\* STRING and whose format was a non-empty value other than "enum" and
\* "date-time" has format undefined, at any depth and on any graph shape.
C1_UnsupportedFormatCleared ==
  \A c \in CallIds : Returned(c) =>
    \A n \in ReachOf(c) :
      (pre[c][n].type = TypeSTRING /\ Rejected(pre[c][n].format))
        => post[c][n].format = Undef

\* a STRING node with format "uuid", reached only through the root's items
C1_Witness ==
  /\ Returned(1) /\ root[1].tag = "schema"
  /\ \E n \in Nodes \ {root[1].id} :
       /\ pre[1][root[1].id].items = SchemaRef(n)
       /\ n \notin Children([pre[1][root[1].id] EXCEPT !.items = Undefined])
       /\ pre[1][n].type = TypeSTRING /\ pre[1][n].format = "uuid"
       /\ post[1][n].format = Undef

\* C2: after the call returns, every reachable node that declares anyOf has
\* default undefined, whatever anyOf holds and whether or not default was set.
C2_DefaultClearedWithAnyOf ==
  \A c \in CallIds : Returned(c) =>
    \A n \in ReachOf(c) : pre[c][n].hasAnyOf => post[c][n].default = Undef

\* the root declares an empty anyOf next to a default
C2_Witness ==
  /\ Returned(1) /\ root[1].tag = "schema"
  /\ pre[1][root[1].id].hasAnyOf /\ pre[1][root[1].id].anyOf = <<>>
  /\ pre[1][root[1].id].default = "value"
  /\ post[1][root[1].id].default = Undef

\* C3: the call terminates and does not throw, on every graph, cyclic ones
\* included.  Termination is shown by a rank that every step of the running
\* call strictly decreases and that is never negative: the number of nodes
\* not yet in the visited set, weighted above any one invocation's work,
\* plus the statements left in the invocations in progress.  With it: the
\* call never ends in an exception (stack exhaustion included) and a running
\* call always has a next step.
BodySteps(node) ==
  Len(node.anyOf) + (IF node.items.tag = "schema" THEN 1 ELSE 0) + Len(node.properties) + 1

StepsLeft(sch, f) ==
  LET node == sch[f.arg.id]
      items == IF node.items.tag = "schema" THEN 1 ELSE 0
  IN CASE f.pc = "anyOf" -> (Len(node.anyOf) - f.idx + 1) + items + Len(node.properties) + 1
       [] f.pc = "items" -> 1 + Len(node.properties) + 1
       [] f.pc = "properties" -> (Len(node.properties) - f.idx + 1) + 1
       [] OTHER -> 1

FrameRank(sch, f) == IF f.pc = "entry" THEN 1 ELSE 2 * StepsLeft(sch, f)

RECURSIVE SumRanks(_, _)
SumRanks(sch, stk) ==
  IF stk = <<>> THEN 0 ELSE FrameRank(sch, stk[1]) + SumRanks(sch, Tail(stk))

NodeWeight(sch) ==
  LET most == CHOOSE k \in {BodySteps(sch[n]) : n \in Nodes} :
                \A n \in Nodes : BodySteps(sch[n]) <= k
  IN 2 * most + 1

Rank(c) ==
  Cardinality(Nodes \ visited[c]) * NodeWeight(schema) + SumRanks(schema, stack[c])

C3_Terminates ==
  /\ [](\A c \in CallIds :
          /\ status[c] # "raised"
          /\ status[c] = "running" => ENABLED Run)
  /\ [][\A c \in CallIds :
          status[c] = "running" => (Rank(c)' < Rank(c) /\ Rank(c)' >= 0)]_vars

\* the call on a node that is its own property has returned
C3_Witness ==
  /\ Returned(1) /\ root[1].tag = "schema"
  /\ root[1] \in Range(pre[1][root[1].id].properties)

\* C4: during one top-level call no node passes the visited guard twice, and
\* when the call returns every reachable node has passed it exactly once and
\* no other node has: processed nodes = distinct reachable nodes.
C4_EachNodeProcessedOnce ==
  \A c \in CallIds :
    /\ \A n \in Nodes : processed[c][n] <= 1
    /\ Returned(c) =>
         \A n \in Nodes : processed[c][n] = IF n \in ReachOf(c) THEN 1 ELSE 0

\* a node the root refers to twice (items and a property), and a root that
\* is not that node
C4_Witness ==
  /\ Returned(1) /\ root[1].tag = "schema"
  /\ \E n \in Nodes \ {root[1].id} :
       /\ pre[1][root[1].id].items = SchemaRef(n)
       /\ SchemaRef(n) \in Range(pre[1][root[1].id].properties)
       /\ processed[1][n] = 1

\* C5: a second call on the sanitized graph leaves every field of every
\* node, the presence of keys included, as the first call left it.
C5_Idempotent ==
  (Returned(1) /\ Returned(2)) => post[2] = post[1]

\* the first call changed the graph, the second has returned
C5_Witness ==
  /\ Returned(1) /\ Returned(2)
  /\ post[1] # pre[1]
  /\ \E n \in Nodes : pre[1][n].default = "value" /\ post[1][n].default = Undef

\* C6: a reachable STRING node whose format is absent, "enum" or "date-time"
\* keeps its format; and a graph in which every STRING node has such a
\* format and no node declares anyOf is equal to its original after the call.
SupportedOrAbsent(f) == f \in {NoKey, "enum", "date-time"}

C6_SupportedFormatKept ==
  \A c \in CallIds : Returned(c) =>
    /\ \A n \in ReachOf(c) :
         (pre[c][n].type = TypeSTRING /\ SupportedOrAbsent(pre[c][n].format))
           => post[c][n].format = pre[c][n].format
    /\ (\A n \in ReachOf(c) :
          /\ pre[c][n].type = TypeSTRING => SupportedOrAbsent(pre[c][n].format)
          /\ ~pre[c][n].hasAnyOf)
         => post[c] = pre[c]

\* an object whose property is a STRING with format "date-time"
C6_Witness ==
  /\ Returned(1) /\ root[1].tag = "schema"
  /\ \E n \in ReachOf(1) \ {root[1].id} :
       /\ pre[1][n].type = TypeSTRING /\ pre[1][n].format = "date-time"
       /\ post[1][n].format = "date-time"
  /\ post[1] = pre[1]

\* C7: a call with no argument, and a call with the empty schema {}, does
\* not throw and modifies nothing; the empty object gets no key.
TrivialInput(c) ==
  \/ root[c].tag = "undefined"
  \/ root[c].tag = "schema" /\ pre[c][root[c].id] = EmptySchema

C7_TrivialInputUntouched ==
  \A c \in CallIds : (Started(c) /\ TrivialInput(c)) =>
    /\ status[c] # "raised"
    /\ schema = pre[c]

\* the call on {} has returned
C7_Witness ==
  /\ Returned(1) /\ root[1].tag = "schema"
  /\ pre[1][root[1].id] = EmptySchema
  /\ processed[1][root[1].id] = 1

\* C8: a STRING node whose unsupported format is cleared keeps the key
\* format, bound to undefined; a STRING node without the key format still
\* has no such key after the call.
C8_FormatKeyKept ==
  \A c \in CallIds : Returned(c) =>
    \A n \in ReachOf(c) : pre[c][n].type = TypeSTRING =>
      /\ Rejected(pre[c][n].format) =>
           (post[c][n].format = Undef /\ post[c][n].format # NoKey)
      /\ pre[c][n].format = NoKey => post[c][n].format = NoKey

\* the root is a STRING with format "uuid": the key is still there, undefined
C8_Witness ==
  /\ Returned(1) /\ root[1].tag = "schema"
  /\ pre[1][root[1].id].type = TypeSTRING /\ pre[1][root[1].id].format = "uuid"
  /\ post[1][root[1].id].format = Undef
  /\ post[1][root[1].id].format # NoKey

\* C9: the call changes nothing but default on reachable nodes that declare
\* anyOf and format on reachable STRING nodes with an unsupported format:
\* type, anyOf, items and properties never change, format never changes on
\* a node that is not a STRING, default never changes on a node without
\* anyOf, no node outside the reach of root changes; a graph of
\* non-STRING nodes without anyOf is equal to its original.
C9_FrameOfTheCall ==
  \A c \in CallIds : Started(c) =>
    /\ \A n \in Nodes :
         /\ [post[c][n] EXCEPT !.default = pre[c][n].default,
                               !.format = pre[c][n].format] = pre[c][n]
         /\ post[c][n].default # pre[c][n].default
              => (n \in ReachOf(c) /\ pre[c][n].hasAnyOf)
         /\ post[c][n].format # pre[c][n].format
              => (n \in ReachOf(c) /\ pre[c][n].type = TypeSTRING
                    /\ Rejected(pre[c][n].format))
         /\ n \notin ReachOf(c) => post[c][n] = pre[c][n]
    /\ (\A n \in ReachOf(c) : pre[c][n].type # TypeSTRING /\ ~pre[c][n].hasAnyOf)
         => post[c] = pre[c]

\* an OBJECT root with format "uuid" that refers to another node: nothing
\* changed
C9_Witness ==
  /\ Returned(1) /\ root[1].tag = "schema"
  /\ pre[1][root[1].id].type = TypeOBJECT /\ pre[1][root[1].id].format = "uuid"
  /\ \E n \in ReachOf(1) \ {root[1].id} : TRUE
  /\ post[1] = pre[1]

\* C10: two calls interleaved step by step on two trees with no node in
\* common share no state: the visited set and the stack of each call hold
\* nodes of its own tree only, and under every interleaving the tree of a
\* call that has returned is, and stays, in the state the call alone would
\* have left it in.
OwnNodes(c) ==
  /\ visited[c] \subseteq ReachOf(c)
  /\ \A i \in DOMAIN stack[c] : stack[c][i].arg.id \in ReachOf(c)

C10_IndependentCalls ==
  \A c \in CallIds : Started(c) =>
    /\ OwnNodes(c)
    /\ Returned(c) =>
         \A n \in ReachOf(c) : schema[n] = SanitizedAlone(pre[c], root[c])[n]

\* the first call has returned and cleared a format while the second, on
\* its own tree, is in the middle of its run and has cleared its default
C10_Witness ==
  /\ Returned(1) /\ status[2] = "running"
  /\ pre[1][root[1].id].format = "uuid" /\ schema[root[1].id].format = Undef
  /\ visited[2] # {} /\ pre[2] = pre[1]
  /\ schema[root[2].id].default = Undef

\* The nodes of the invocations below the innermost one of call c.
Ancestors(c) == {stack[c][i].arg.id : i \in 1..(Len(stack[c]) - 1)}

\* The innermost invocation of call c is at its guard, on an ancestor.
MeetsAncestor(c) ==
  /\ At(c, "entry")
  /\ TopOf(stack[c]).arg.tag = "schema"
  /\ TopOf(stack[c]).arg.id \in Ancestors(c)

\* C16: a node is added to the visited set before any of its children is
\* visited: in every intermediate state every node on the recursion stack
\* whose invocation is past the guard is in the visited set, and meeting an
\* ancestor again returns immediately without changing anything.
C16_VisitedBeforeChildren ==
  /\ [](\A c \in CallIds : \A i \in DOMAIN stack[c] :
          stack[c][i].pc # "entry" => stack[c][i].arg.id \in visited[c])
  /\ [][\A c \in CallIds : MeetsAncestor(c) =>
          /\ stack'[c] = Pop(stack[c])
          /\ schema' = schema /\ visited' = visited /\ processed' = processed]_vars

\* the recursion is back at a node whose invocation is still on the stack
C16_Witness ==
  \E c \in CallIds :
    /\ MeetsAncestor(c)
    /\ TopOf(stack[c]).arg.id \in visited[c]
    /\ Len(stack[c]) > 2

\* C17: the visited set is local to one top-level call: every top-level call
\* starts with an empty set, so a node processed by an earlier call is
\* processed again by a later call on the same graph.
C17_VisitedPerCall ==
  \A c \in CallIds :
    /\ (At(c, "entry") /\ Len(stack[c]) = 1) => visited[c] = {}
    /\ Returned(c) =>
         \A d \in CallIds : \A n \in Nodes :
           (d < c /\ processed[d][n] >= 1) => processed[c][n] = 1

\* a second call on a graph of two nodes, both processed by both calls
C17_Witness ==
  /\ Returned(1) /\ Returned(2)
  /\ Cardinality(ReachOf(2)) > 1
  /\ \A n \in ReachOf(2) : processed[1][n] = 1 /\ processed[2][n] = 1

\* The entries of a node: anyOf entries, items, properties values.
Entries(node) == Range(node.anyOf) \cup {node.items} \cup Range(node.properties)

\* The nodes that stand next to a boolean schema in the entries of a node.
BooleanSiblings(sch, S) ==
  UNION {IF \E e \in Entries(sch[p]) : e.tag = "boolean"
           THEN Children(sch[p]) ELSE {} : p \in S}

\* C19: boolean-schema entries in anyOf, items or properties are skipped:
\* never recursed into, never added to the visited set, never the cause of
\* an error, and the schema nodes next to them are still sanitized.
C19_BooleansSkipped ==
  \A c \in CallIds :
    /\ \A i \in DOMAIN stack[c] : stack[c][i].arg.tag # "boolean"
    /\ visited[c] \subseteq Nodes
    /\ status[c] # "raised"
    /\ Returned(c) =>
         \A n \in BooleanSiblings(pre[c], ReachOf(c)) :
           /\ processed[c][n] = 1
           /\ (pre[c][n].type = TypeSTRING /\ Rejected(pre[c][n].format))
                => post[c][n].format = Undef

\* the root's anyOf holds a boolean schema and a node other than the root
C19_Witness ==
  /\ Returned(1)
  /\ root[1].tag = "schema"
  /\ \E e \in Range(pre[1][root[1].id].anyOf) : e.tag = "boolean"
  /\ \E n \in BooleanSiblings(pre[1], ReachOf(1)) :
       n # root[1].id /\ processed[1][n] = 1

\* Two different nodes that the call reaches and that had the same content.
Twins(c) ==
  {p \in ReachOf(c) \X ReachOf(c) : p[1] # p[2] /\ pre[c][p[1]] = pre[c][p[2]]}

\* C18: the visited guard is by object identity, not by structure: two
\* distinct reachable nodes with identical content are both processed and
\* both have a rejected format cleared; neither makes the other skipped.
C18_IdentityNotStructure ==
  \A c \in CallIds : Returned(c) =>
    \A p \in Twins(c) : \A n \in {p[1], p[2]} :
      /\ processed[c][n] = 1
      /\ (pre[c][n].type = TypeSTRING /\ Rejected(pre[c][n].format))
           => post[c][n].format = Undef

\* two nodes {type: STRING, format: "uuid", items: <the second>} both cleared
C18_Witness ==
  /\ Returned(1)
  /\ \E p \in Twins(1) :
       /\ pre[1][p[1]].type = TypeSTRING /\ pre[1][p[1]].format = "uuid"
       /\ post[1][p[1]].format = Undef /\ post[1][p[2]].format = Undef
       /\ processed[1][p[1]] = 1 /\ processed[1][p[2]] = 1

\* C20: the final state of the graph does not depend on the traversal
\* order: whatever the order in which the entries of anyOf, items and
\* properties are gone through, on every graph the call ends with the field
\* values the order of the code gives.
C20_OrderIndependent ==
  \A c \in CallIds : Returned(c) => schema = SanitizedAlone(pre[c], root[c])

\* a call that took an entry before one the code takes earlier, on a graph
\* of several nodes, and that cleared a format
C20_Witness ==
  /\ Returned(1)
  /\ local.reordered
  /\ Cardinality(ReachOf(1)) > 1
  /\ \E n \in ReachOf(1) : pre[1][n].format = "uuid" /\ schema[n].format = Undef

\* The nodes that lie on a cycle of the graph the call was given.
OnCycle(c) == {n \in ReachOf(c) : n \in Closure(pre[c], Children(pre[c][n]))}

\* C21: the format rule of a node is applied last: its default is cleared
\* before any of its anyOf entries is visited, its format is cleared only
\* after the recursion into all its children has returned, and on a cycle
\* an ancestor with an unsupported format still has it cleared although a
\* descendant reached it first and returned early.
C21_FormatRuleLast ==
  \A c \in CallIds :
    /\ \A i \in DOMAIN stack[c] :
         LET f == stack[c][i] IN
         (status[c] = "running" /\ f.pc # "entry") =>
           /\ DeclaresAnyOf(schema[f.arg.id]) => schema[f.arg.id].default = Undef
           /\ schema[f.arg.id].format = pre[c][f.arg.id].format
    /\ \A n \in Nodes :
         (Started(c) /\ post[c][n].format # pre[c][n].format) =>
           n \in visited[c] /\ Children(pre[c][n]) \subseteq visited[c]
    /\ Returned(c) =>
         \A n \in OnCycle(c) :
           (pre[c][n].type = TypeSTRING /\ Rejected(pre[c][n].format))
             => post[c][n].format = Undef

\* a STRING node with format "uuid" whose items is the node itself
C21_Witness ==
  /\ Returned(1)
  /\ root[1].tag = "schema"
  /\ root[1].id \in OnCycle(1)
  /\ pre[1][root[1].id].type = TypeSTRING
  /\ pre[1][root[1].id].format = "uuid"
  /\ post[1][root[1].id].format = Undef

\* C22: the recursion depth never exceeds the number of distinct nodes
\* reachable from root plus one (the extra frame being a call that returns
\* at once on the visited guard), on every graph, cyclic ones included.
C22_DepthBounded ==
  \A c \in CallIds :
    Started(c) => Len(stack[c]) <= Cardinality(ReachOf(c)) + 1

\* a cycle through every node: the extra frame is on the stack
C22_Witness ==
  \E c \in CallIds :
    /\ MeetsAncestor(c)
    /\ Cardinality(ReachOf(c)) > 1
    /\ Len(stack[c]) = Cardinality(ReachOf(c)) + 1

\* ================================================== the migration scripts
\* Each script is a sequence of statements run by one process; a statement
\* that touches the file system or the database either succeeds or throws.
MaxFiles == 2

FileNames == 1..MaxFiles

RECURSIVE SortedSeq(_)
\* .sort() of a list of file names
SortedSeq(S) ==
  IF S = {} THEN <<>>
  ELSE LET m == CHOOSE x \in S : \A y \in S : x <= y
       IN <<m>> \o SortedSeq(S \ {m})

\* The sanitizer is not exercised while a script runs.
SanitizerIdle ==
  /\ schema = [n \in Nodes |-> EmptySchema]
  /\ built = 0
  /\ status = [c \in CallIds |-> "idle"]
  /\ root = [c \in CallIds |-> Undefined]
  /\ visited = [c \in CallIds |-> {}]
  /\ stack = [c \in CallIds |-> <<>>]
  /\ processed = [c \in CallIds |-> [n \in Nodes |-> 0]]
  /\ pre = [c \in CallIds |-> schema]
  /\ post = [c \in CallIds |-> schema]

\* ------------------------- Drizzle Migration State Recovery Script (part_002)
\* disk.folder: the .sql files in the migrations folder; disk.tempExists and
\* disk.temp: the temp-migrations folder and the .sql files in it.
RecoveryDisks ==
  {[folder |-> f, tempExists |-> e, temp |-> t] :
     f \in SUBSET FileNames, e \in BOOLEAN, t \in SUBSET FileNames}

RecoveryInit ==
  /\ SanitizerIdle
  /\ step = "mkdir"
  /\ disk \in {d \in RecoveryDisks : ~d.tempExists => d.temp = {}}
  /\ db = <<>>
  /\ local = [migrationFiles |-> <<>>, i |-> 1, tempFiles |-> <<>>,
              recovered |-> {}, handlerFailed |-> FALSE, exitCode |-> -1]
  /\ start = [disk |-> disk]

\* renameSync(migrations/f, temp/f) and back: the destination is replaced
MoveToTemp(d, f)   == [d EXCEPT !.folder = @ \ {f}, !.temp = @ \cup {f}]
MoveToFolder(d, f) == [d EXCEPT !.temp = @ \ {f}, !.folder = @ \cup {f}]

\* Control passes to another statement of the script.
Goto(s) ==
  /\ step' = s
  /\ UNCHANGED <<disk, db, local, start, sanitizerVars>>

\* A statement of the try block throws: control passes to the catch block.
RecoveryThrow == Goto("catch")

\* Step 1: if (!existsSync(tempFolder)) mkdirSync(tempFolder)
RecoveryMkdir ==
  /\ step = "mkdir"
  /\ IF disk.tempExists
       THEN Goto("readdir")
       ELSE \/ /\ step' = "readdir"
               /\ disk' = [disk EXCEPT !.tempExists = TRUE]
               /\ UNCHANGED <<db, local, start, sanitizerVars>>
            \/ RecoveryThrow

\* Step 2: readdirSync(migrationsFolder).filter(.sql).sort()
RecoveryReaddir ==
  /\ step = "readdir"
  /\ \/ /\ step' = "move"
        /\ local' = [local EXCEPT !.migrationFiles = SortedSeq(disk.folder), !.i = 1]
        /\ UNCHANGED <<disk, db, start, sanitizerVars>>
     \/ RecoveryThrow

\* Step 2, the loop: renameSync(source, temp) for each listed file
RecoveryMove ==
  /\ step = "move"
  /\ IF local.i > Len(local.migrationFiles)
       THEN Goto("migrate1")
       ELSE \/ /\ disk' = MoveToTemp(disk, local.migrationFiles[local.i])
               /\ local' = [local EXCEPT !.i = @ + 1]
               /\ UNCHANGED <<step, db, start, sanitizerVars>>
            \/ RecoveryThrow

\* Step 3: await migrate(serverDB, { migrationsFolder }) on the emptied folder
RecoveryMigrateEmpty ==
  /\ step = "migrate1"
  /\ \/ /\ step' = "restore"
        /\ local' = [local EXCEPT !.i = 1]
        /\ UNCHANGED <<disk, db, start, sanitizerVars>>
     \/ RecoveryThrow

\* Step 4: renameSync(temp, destination) for each listed file
RecoveryRestore ==
  /\ step = "restore"
  /\ IF local.i > Len(local.migrationFiles)
       THEN Goto("rmdir")
       ELSE \/ /\ disk' = MoveToFolder(disk, local.migrationFiles[local.i])
               /\ local' = [local EXCEPT !.i = @ + 1]
               /\ UNCHANGED <<step, db, start, sanitizerVars>>
            \/ RecoveryThrow

\* Step 5: rmdirSync(tempFolder) in a try/catch of its own; it fails on a
\* folder that is not empty, and a failure is only logged.
RecoveryRmdir ==
  /\ step = "rmdir"
  /\ step' = "migrate2"
  /\ \/ disk.temp = {} /\ disk' = [disk EXCEPT !.tempExists = FALSE]
     \/ UNCHANGED disk
  /\ UNCHANGED <<db, local, start, sanitizerVars>>

\* process.exit(code)
Exit(code) ==
  /\ step' = "exit"
  /\ local' = [local EXCEPT !.exitCode = code]
  /\ UNCHANGED <<disk, db, start, sanitizerVars>>

\* Step 6: the second migrate, then process.exit(0)
RecoveryMigrateRestored ==
  /\ step = "migrate2"
  /\ \/ Exit(0)
     \/ RecoveryThrow

\* catch: tempFiles = existsSync(tempFolder) ? readdirSync(tempFolder) : []
RecoveryCatch ==
  /\ step = "catch"
  /\ step' = "recover"
  /\ local' = [local EXCEPT
       !.tempFiles = IF disk.tempExists THEN SortedSeq(disk.temp) ELSE <<>>,
       !.i = 1]
  /\ UNCHANGED <<disk, db, start, sanitizerVars>>

\* (variant) the handler moves back only the files the folder already has
HandlerRestores_existing(d, f) == f \in d.folder

\* if (!existsSync(destination)) renameSync(source, destination)
HandlerRestores(d, f) == f \notin d.folder

\* catch, the loop over tempFiles inside its own try/catch; a rename that
\* throws ends the loop, and process.exit(1) follows either way.
RecoveryRecover ==
  /\ step = "recover"
  /\ IF local.i > Len(local.tempFiles)
       THEN Exit(1)
       ELSE LET f == local.tempFiles[local.i]
            IN IF HandlerRestores(disk, f)
                 THEN \/ /\ disk' = MoveToFolder(disk, f)
                         /\ local' = [local EXCEPT !.i = @ + 1,
                                                   !.recovered = @ \cup {f}]
                         /\ UNCHANGED <<step, db, start, sanitizerVars>>
                      \/ /\ step' = "exit"
                         /\ local' = [local EXCEPT !.handlerFailed = TRUE,
                                                   !.exitCode = 1]
                         /\ UNCHANGED <<disk, db, start, sanitizerVars>>
                 ELSE /\ local' = [local EXCEPT !.i = @ + 1]
                      /\ UNCHANGED <<step, disk, db, start, sanitizerVars>>

RecoveryNext ==
  \/ RecoveryMkdir
  \/ RecoveryReaddir
  \/ RecoveryMove
  \/ RecoveryMigrateEmpty
  \/ RecoveryRestore
  \/ RecoveryRmdir
  \/ RecoveryMigrateRestored
  \/ RecoveryCatch
  \/ RecoveryRecover

SpecRecovery == RecoveryInit /\ [][RecoveryNext]_vars

MaxMigrations == 2
MaxRows == 2

\* The tags of the journal entries; the entry with tag t has `when` When(t).
Tags == 1..MaxMigrations
When(t) == t

\* test_migration_${Date.now()}: a tag no journal entry has, with the latest `when`
TestTag == MaxMigrations + 1

\* A row of drizzle.__drizzle_migrations (its id is its position in the table).
Record(h, w) == [hash |-> h, created_at |-> w]

\* The hash the migrator computes from the content of the .sql file of a tag.
Sha(t) == [kind |-> "sha256", tag |-> t]

Prefix(k) == [i \in 1..k |-> i]

\* meta/_journal.json with entries in `when` order, or no journal file; the
\* .sql files present in the folder need not be those of the journal.
ScriptDisks ==
  {[files |-> f, journalExists |-> TRUE, journal |-> Prefix(k)] :
     f \in SUBSET Tags, k \in 0..MaxMigrations}
  \cup {[files |-> f, journalExists |-> FALSE, journal |-> <<>>] : f \in SUBSET Tags}

\* The rows a restored or half-repaired database may hold.
OldRecords ==
  {Record(Sha(t), When(t)) : t \in Tags}
  \cup {Record([kind |-> "stale", tag |-> 0], 0),
        Record([kind |-> "tag-when", tag |-> 1], When(1))}

NoTable == [exists |-> FALSE, rows |-> <<>>]
TableOf(rows) == [exists |-> TRUE, rows |-> rows]

ScriptTables ==
  {NoTable} \cup {TableOf(r) : r \in UNION {[1..k -> OldRecords] : k \in 0..MaxRows}}

\* db.table: the migration-history table; db.applied: the tags whose SQL a
\* migrate call of this run has executed against the database schema.
ScriptDbs == {[table |-> t, applied |-> {}] : t \in ScriptTables}

\* readMigrationFiles: the journal and the .sql file of every entry are read
Readable(d) == d.journalExists /\ \A i \in DOMAIN d.journal : d.journal[i] \in d.files

RECURSIVE LastCreatedAt(_)
\* the largest created_at of the table (lastDbMigration), -1 for no row
LastCreatedAt(rows) ==
  IF rows = <<>> THEN -1
  ELSE LET m == LastCreatedAt(Tail(rows))
       IN IF Head(rows).created_at > m THEN Head(rows).created_at ELSE m

\* Which entries a migrate call takes as not yet run.  The migrator of
\* drizzle-orm is not part of the repository: it runs the entries newer than
\* the last row of the table, and the header of fix-migration-ultimate.ts
\* describes it as running the entries whose hash the table does not hold.
\* Both readings are kept, as two possible outcomes of a call.
MigrateRules == {"newer", "unrecorded"}

IsPending(rows, t, rule) ==
  IF rule = "newer"
    THEN When(t) > LastCreatedAt(rows)
    ELSE \A i \in DOMAIN rows : rows[i].hash # Sha(t)

\* The entries a migrate call runs, in journal order.
Pending(d, b, rule) ==
  LET F(t) == IsPending(b.table.rows, t, rule) IN SelectSeq(d.journal, F)

RecordsOf(tags) == [i \in DOMAIN tags |-> Record(Sha(tags[i]), When(tags[i]))]

\* A migrate call that succeeds: the table exists afterwards, the SQL of
\* every pending entry has run and one row per pending entry is appended.
Migrated(d, b, rule) ==
  [table |-> TableOf(b.table.rows \o RecordsOf(Pending(d, b, rule))),
   applied |-> b.applied \cup Range(Pending(d, b, rule))]

\* The outcomes of migrate(serverDB, { migrationsFolder }) that do not throw.
MigrateOutcomes(d, b) ==
  IF Readable(d) THEN {Migrated(d, b, rule) : rule \in MigrateRules} ELSE {}

\* hash LIKE '%tag%', record.hash.includes(tag): a sha256 digest does not
\* contain the tag, a hash built from the tag does
HashIncludes(h, t) == h.kind \in {"tag-when", "tag-missing-when"} /\ h.tag = t

\* ------------- Fix Migration State Script (fix-migration-ultimate.ts, 211-440)
FixStateInit ==
  /\ SanitizerIdle
  /\ step = "tableCounts"
  /\ disk \in ScriptDisks
  /\ db \in ScriptDbs
  /\ local = [journal |-> <<>>, wrote |-> FALSE, exitCode |-> -1]
  /\ start = [disk |-> disk, db |-> db]

\* A statement of main's try block throws: catch (error) { ...; process.exit(1) }
FixStateThrow == Exit(1)

\* Step 1: getTableCounts(); an empty database is refused
FixStateTableCounts ==
  /\ step = "tableCounts"
  /\ \/ Goto("history")
     \/ FixStateThrow

\* Step 2: getMigrationList(); it fails when the table does not exist
FixStateHistory ==
  /\ step = "history"
  /\ \/ db.table.exists /\ Goto("journal")
     \/ FixStateThrow

\* Step 3: the journal file is read into `journal`
FixStateJournal ==
  /\ step = "journal"
  /\ \/ /\ disk.journalExists
        /\ step' = "writeTest"
        /\ local' = [local EXCEPT !.journal = disk.journal]
        /\ UNCHANGED <<disk, db, start, sanitizerVars>>
     \/ FixStateThrow

\* Step 5: writeFileSync(testMigrationFile, testMigrationContent)
FixStateWriteTest ==
  /\ step = "writeTest"
  /\ \/ /\ step' = "writeJournal"
        /\ disk' = [disk EXCEPT !.files = @ \cup {TestTag}]
        /\ UNCHANGED <<db, local, start, sanitizerVars>>
     \/ FixStateThrow

\* Step 5: journal.entries.push(newJournalEntry); writeFileSync(journalPath, ...)
FixStateWriteJournal ==
  /\ step = "writeJournal"
  /\ \/ /\ step' = "migrate"
        /\ disk' = [disk EXCEPT !.journal = Append(local.journal, TestTag)]
        /\ local' = [local EXCEPT !.journal = Append(@, TestTag), !.wrote = TRUE]
        /\ UNCHANGED <<db, start, sanitizerVars>>
     \/ /\ local' = [local EXCEPT !.journal = Append(@, TestTag), !.exitCode = 1]
        /\ step' = "exit"
        /\ UNCHANGED <<disk, db, start, sanitizerVars>>

\* Step 6: migrate(serverDB, { migrationsFolder }) and the look-up of the
\* test record; catch (error) { console.error(...); throw error }
FixStateMigrate ==
  /\ step = "migrate"
  /\ \/ /\ db' \in MigrateOutcomes(disk, db)
        /\ step' = "unlink"
        /\ UNCHANGED <<disk, local, start, sanitizerVars>>
     \/ FixStateThrow

\* Step 7 is one try block: a statement that throws skips the rest of it,
\* the catch only warns, and Step 8 follows.
FixStateUnlink ==
  /\ step = "unlink"
  /\ \/ /\ step' = "popJournal"
        /\ disk' = [disk EXCEPT !.files = @ \ {TestTag}]
        /\ UNCHANGED <<db, local, start, sanitizerVars>>
     \/ Goto("final")

\* journal.entries.pop(); writeFileSync(journalPath, ...)
FixStatePopJournal ==
  /\ step = "popJournal"
  /\ local' = [local EXCEPT !.journal = SubSeq(@, 1, Len(@) - 1)]
  /\ \/ /\ step' = "delete"
        /\ disk' = [disk EXCEPT !.journal = local'.journal]
     \/ /\ step' = "final"
        /\ UNCHANGED disk
  /\ UNCHANGED <<db, start, sanitizerVars>>

\* DELETE FROM __drizzle_migrations WHERE hash LIKE '%testMigrationTag%'
FixStateDelete ==
  /\ step = "delete"
  /\ step' = "final"
  /\ \/ LET Kept(r) == ~HashIncludes(r.hash, TestTag)
        IN db' = [db EXCEPT !.table.rows = SelectSeq(@, Kept)]
     \/ UNCHANGED db
  /\ UNCHANGED <<disk, local, start, sanitizerVars>>

\* Step 8: getMigrationList(), getTableCounts(), then process.exit(0)
FixStateFinal ==
  /\ step = "final"
  /\ \/ Exit(0)
     \/ FixStateThrow

FixStateNext ==
  \/ FixStateTableCounts
  \/ FixStateHistory
  \/ FixStateJournal
  \/ FixStateWriteTest
  \/ FixStateWriteJournal
  \/ FixStateMigrate
  \/ FixStateUnlink
  \/ FixStatePopJournal
  \/ FixStateDelete
  \/ FixStateFinal

SpecFixState == FixStateInit /\ [][FixStateNext]_vars

\* C12: whenever the Fix Migration State script exits after it has written
\* the test migration file and appended the test entry to the journal, the
\* test file is removed and the journal file holds the entries it held
\* before the run, also at the exit taken when the test migrate call fails.
C12_TestArtifactsRemoved ==
  (step = "exit" /\ local.wrote)
    => (TestTag \notin disk.files /\ disk.journal = start.disk.journal)

\* ------------------------------------------ Quick Migration Test (part_001)
QuickInit ==
  /\ SanitizerIdle
  /\ step = "import"
  /\ disk \in ScriptDisks
  /\ db \in ScriptDbs
  /\ local = [failed |-> FALSE, exitCode |-> -1]
  /\ start = [disk |-> disk, db |-> db]

\* catch (error) { console.error('Migration test failed:', error.message) }
QuickCatch ==
  /\ step' = "exit0"
  /\ local' = [local EXCEPT !.failed = TRUE]
  /\ UNCHANGED <<disk, db, start, sanitizerVars>>

\* the imports of serverDB and of the migrator
QuickImport ==
  /\ step = "import"
  /\ \/ Goto("migrate")
     \/ QuickCatch

\* await migrate(serverDB, { migrationsFolder })
QuickMigrate ==
  /\ step = "migrate"
  /\ \/ /\ db' \in MigrateOutcomes(disk, db)
        /\ step' = "exit0"
        /\ UNCHANGED <<disk, local, start, sanitizerVars>>
     \/ QuickCatch

\* main().then(() => process.exit(0))
QuickExit ==
  /\ step = "exit0"
  /\ Exit(0)

QuickNext == QuickImport \/ QuickMigrate \/ QuickExit

SpecQuick == QuickInit /\ [][QuickNext]_vars

\* C13: the Quick Migration Test makes no changes: for every initial state
\* the database schema, the migration-history table and the migration files
\* after the run equal those before the run.
C13_NoChanges ==
  step = "exit" => (db = start.db /\ disk = start.disk)

\* ------------------ Manual Migration History Population Script (part_000)
ManualInit ==
  /\ SanitizerIdle
  /\ step = "readJournal"
  /\ disk \in ScriptDisks
  /\ db \in ScriptDbs
  /\ local = [journal |-> <<>>, i |-> 1, dbFailed |-> FALSE, exitCode |-> -1]
  /\ start = [disk |-> disk, db |-> db]

\* A database statement fails although the table it names exists.
ManualFailed(s) ==
  /\ step' = s
  /\ local' = [local EXCEPT !.dbFailed = TRUE]
  /\ UNCHANGED <<disk, db, start, sanitizerVars>>

\* journal = JSON.parse(readFileSync(journalPath)); the outer catch exits 1
ManualReadJournal ==
  /\ step = "readJournal"
  /\ \/ /\ disk.journalExists
        /\ step' = "count"
        /\ local' = [local EXCEPT !.journal = disk.journal]
        /\ UNCHANGED <<disk, db, start, sanitizerVars>>
     \/ Exit(1)

\* (variant) a table with a single record is not cleared
ShouldClear_many(count) == count > 1

\* if (currentCount > 0)
ShouldClear(count) == count > 0

\* try { SELECT COUNT(*) ...: it fails when the table does not exist, and
\* the catch of this try creates the table
ManualCount ==
  /\ step = "count"
  /\ IF db.table.exists
       THEN \/ Goto(IF ShouldClear(Len(db.table.rows)) THEN "clear" ELSE "populate")
            \/ ManualFailed("create")
       ELSE Goto("create")

\* DELETE FROM __drizzle_migrations, inside the same try
ManualClear ==
  /\ step = "clear"
  /\ \/ /\ db' = [db EXCEPT !.table.rows = <<>>]
        /\ step' = "populate"
        /\ UNCHANGED <<disk, local, start, sanitizerVars>>
     \/ ManualFailed("create")

\* catch { CREATE SCHEMA IF NOT EXISTS; CREATE TABLE IF NOT EXISTS }
ManualCreate ==
  /\ step = "create"
  /\ \/ /\ db' = [db EXCEPT !.table.exists = TRUE]
        /\ step' = "populate"
        /\ UNCHANGED <<disk, local, start, sanitizerVars>>
     \/ /\ local' = [local EXCEPT !.dbFailed = TRUE, !.exitCode = 1]
        /\ step' = "exit"
        /\ UNCHANGED <<disk, db, start, sanitizerVars>>

\* `${entry.tag}-${entry.when}` and `${entry.tag}-missing-${entry.when}`
TagWhen(t)        == [kind |-> "tag-when", tag |-> t]
TagMissingWhen(t) == [kind |-> "tag-missing-when", tag |-> t]

\* INSERT INTO __drizzle_migrations (hash, created_at) VALUES (hash, entry.when)
Inserted(b, h, t) == [b EXCEPT !.table.rows = Append(@, Record(h, When(t)))]

\* for (const entry of journal.entries) try { readFileSync; INSERT }: a file
\* that cannot be read and an INSERT that fails both pass to the catch
ManualInsert ==
  /\ step = "populate"
  /\ IF local.i > Len(local.journal)
       THEN Goto("verify")
       ELSE LET t == local.journal[local.i]
            IN IF t \in disk.files
                 THEN \/ /\ db' = Inserted(db, TagWhen(t), t)
                         /\ local' = [local EXCEPT !.i = @ + 1]
                         /\ UNCHANGED <<step, disk, start, sanitizerVars>>
                      \/ ManualFailed("placeholder")
                 ELSE Goto("placeholder")

\* catch { INSERT a record with a placeholder hash }: a failure here goes
\* to the outer catch
ManualPlaceholder ==
  /\ step = "placeholder"
  /\ LET t == local.journal[local.i]
     IN \/ /\ db' = Inserted(db, TagMissingWhen(t), t)
           /\ local' = [local EXCEPT !.i = @ + 1]
           /\ step' = "populate"
           /\ UNCHANGED <<disk, start, sanitizerVars>>
        \/ /\ local' = [local EXCEPT !.dbFailed = TRUE, !.exitCode = 1]
           /\ step' = "exit"
           /\ UNCHANGED <<disk, db, start, sanitizerVars>>

\* Verification: SELECT COUNT(*); a mismatch is only logged
ManualVerify ==
  /\ step = "verify"
  /\ \/ Goto("migrate")
     \/ /\ local' = [local EXCEPT !.dbFailed = TRUE, !.exitCode = 1]
        /\ step' = "exit"
        /\ UNCHANGED <<disk, db, start, sanitizerVars>>

\* try { migrate } catch { log }, then process.exit(0)
ManualMigrate ==
  /\ step = "migrate"
  /\ \/ db' \in MigrateOutcomes(disk, db)
     \/ UNCHANGED db
  /\ step' = "exit"
  /\ local' = [local EXCEPT !.exitCode = 0]
  /\ UNCHANGED <<disk, start, sanitizerVars>>

ManualNext ==
  \/ ManualReadJournal
  \/ ManualCount
  \/ ManualClear
  \/ ManualCreate
  \/ ManualInsert
  \/ ManualPlaceholder
  \/ ManualVerify
  \/ ManualMigrate

SpecManual == ManualInit /\ [][ManualNext]_vars

\* C14: when every database statement succeeds, after the population loop
\* the table holds exactly one record per journal entry, in journal order,
\* each with created_at equal to the entry's `when`, and no record from
\* before the run, whatever the table held or whether it existed.
C14_OneRecordPerEntry ==
  (step = "verify" /\ ~local.dbFailed) =>
    /\ Len(db.table.rows) = Len(start.disk.journal)
    /\ \A i \in DOMAIN db.table.rows :
         /\ db.table.rows[i].hash \in {TagWhen(start.disk.journal[i]),
                                       TagMissingWhen(start.disk.journal[i])}
         /\ db.table.rows[i].created_at = When(start.disk.journal[i])

\* the table held old records, the journal has several entries, and the
\* file of one of them is missing
C14_Witness ==
  /\ step = "verify"
  /\ ~local.dbFailed
  /\ start.db.table.rows # <<>>
  /\ Len(db.table.rows) = Len(start.disk.journal)
  /\ Len(db.table.rows) > 1
  /\ db.table.rows[1].hash.kind # db.table.rows[2].hash.kind

\* C23: a placeholder record (hash tag-missing-when) is inserted for a
\* journal entry only when the .sql file of that entry could not be read; an
\* entry whose file is readable only ever gets the record with hash
\* tag-when, also when a database INSERT fails.
C23_PlaceholderOnlyIfUnreadable ==
  \A i \in DOMAIN db.table.rows :
    db.table.rows[i].hash.kind = "tag-missing-when"
      => db.table.rows[i].hash.tag \notin start.disk.files

\* ------------------- Simple Migration History Fix (fix-migration-simple-v2.ts)
\* local.beforeTest: the rows of the table when the migrate test is called.
SimpleInit ==
  /\ SanitizerIdle
  /\ step = "read"
  /\ disk \in ScriptDisks
  /\ db \in ScriptDbs
  /\ local = [migrations |-> <<>>, i |-> 1, beforeTest |-> <<>>, exitCode |-> -1]
  /\ start = [disk |-> disk, db |-> db]

\* catch (error) { console.error(...); process.exit(1) }
SimpleThrow == Exit(1)

\* migrations = readMigrationFiles({ migrationsFolder })
SimpleRead ==
  /\ step = "read"
  /\ \/ /\ Readable(disk)
        /\ step' = "schema"
        /\ local' = [local EXCEPT !.migrations = disk.journal]
        /\ UNCHANGED <<disk, db, start, sanitizerVars>>
     \/ SimpleThrow

\* CREATE SCHEMA IF NOT EXISTS "drizzle"
SimpleSchema ==
  /\ step = "schema"
  /\ \/ Goto("table")
     \/ SimpleThrow

\* CREATE TABLE IF NOT EXISTS "drizzle"."__drizzle_migrations"
SimpleTable ==
  /\ step = "table"
  /\ \/ /\ db' = [db EXCEPT !.table.exists = TRUE]
        /\ step' = "clear"
        /\ UNCHANGED <<disk, local, start, sanitizerVars>>
     \/ SimpleThrow

\* (variant) the records of the table are left in place
Cleared_kept(rows) == rows

\* DELETE FROM "drizzle"."__drizzle_migrations"
Cleared(rows) == <<>>

SimpleClear ==
  /\ step = "clear"
  /\ \/ /\ db' = [db EXCEPT !.table.rows = Cleared(@)]
        /\ step' = "insert"
        /\ UNCHANGED <<disk, local, start, sanitizerVars>>
     \/ SimpleThrow

\* for (i ...) INSERT (migration.hash, migration.folderMillis); after the
\* last one the migrate test is next
SimpleInsert ==
  /\ step = "insert"
  /\ IF local.i > Len(local.migrations)
       THEN /\ step' = "migrate"
            /\ local' = [local EXCEPT !.beforeTest = db.table.rows]
            /\ UNCHANGED <<disk, db, start, sanitizerVars>>
       ELSE \/ /\ db' = Inserted(db, Sha(local.migrations[local.i]),
                                 local.migrations[local.i])
               /\ local' = [local EXCEPT !.i = @ + 1]
               /\ UNCHANGED <<step, disk, start, sanitizerVars>>
            \/ SimpleThrow

\* await migrate(serverDB, { migrationsFolder }); fix().then(() => process.exit(0))
SimpleMigrate ==
  /\ step = "migrate"
  /\ \/ /\ db' \in MigrateOutcomes(disk, db)
        /\ step' = "exit"
        /\ local' = [local EXCEPT !.exitCode = 0]
        /\ UNCHANGED <<disk, start, sanitizerVars>>
     \/ SimpleThrow

SimpleNext ==
  \/ SimpleRead
  \/ SimpleSchema
  \/ SimpleTable
  \/ SimpleClear
  \/ SimpleInsert
  \/ SimpleMigrate

SpecSimple == SimpleInit /\ [][SimpleNext]_vars

\* C15: whenever fix() completes without error, the table held, before the
\* final migrate test, exactly the hashes returned by readMigrationFiles,
\* one record per migration in file order, and no record from before the
\* run.
C15_TableRebuilt ==
  (step = "exit" /\ local.exitCode = 0) =>
    local.beforeTest = RecordsOf(start.disk.journal)

\* the table held old records and two migrations were inserted
C15_Witness ==
  /\ step = "exit"
  /\ local.exitCode = 0
  /\ start.db.table.rows # <<>>
  /\ Len(start.disk.journal) > 1
  /\ local.beforeTest = RecordsOf(start.disk.journal)

\* ---------- Ultimate Migration State Fix Script (fix-migration-ultimate.ts, 1-209)
\* local.selectFailed: the first SELECT failed although the table exists;
\* local.verified and local.atVerify: the insertion verification has been
\* passed, and the rows of the table at that point.
UltimateInit ==
  /\ SanitizerIdle
  /\ step = "read"
  /\ disk \in ScriptDisks
  /\ db \in ScriptDbs
  /\ local = [migrations |-> <<>>, i |-> 1, tableExists |-> FALSE,
              selectFailed |-> FALSE, verified |-> FALSE, atVerify |-> <<>>,
              exitCode |-> -1]
  /\ start = [disk |-> disk, db |-> db]

\* catch (error) { ...; process.exit(1) }
UltimateThrow == Exit(1)

\* migrations = readMigrationFiles({ migrationsFolder })
UltimateRead ==
  /\ step = "read"
  /\ \/ /\ Readable(disk)
        /\ step' = "select"
        /\ local' = [local EXCEPT !.migrations = disk.journal]
        /\ UNCHANGED <<disk, db, start, sanitizerVars>>
     \/ UltimateThrow

\* try { SELECT hash, created_at ...; tableExists = true } catch { }
UltimateSelect ==
  /\ step = "select"
  /\ step' = "prepare"
  /\ \/ /\ db.table.exists
        /\ local' = [local EXCEPT !.tableExists = TRUE]
     \/ local' = [local EXCEPT !.selectFailed = db.table.exists]
  /\ UNCHANGED <<disk, db, start, sanitizerVars>>

\* if (!tableExists) CREATE SCHEMA IF NOT EXISTS else DELETE FROM the table
UltimatePrepare ==
  /\ step = "prepare"
  /\ \/ /\ step' = "table"
        /\ db' = IF local.tableExists
                   THEN [db EXCEPT !.table.rows = Cleared(@)] ELSE db
        /\ UNCHANGED <<disk, local, start, sanitizerVars>>
     \/ UltimateThrow

\* CREATE TABLE IF NOT EXISTS "drizzle"."__drizzle_migrations"
UltimateTable ==
  /\ step = "table"
  /\ \/ /\ db' = [db EXCEPT !.table.exists = TRUE]
        /\ step' = "insert"
        /\ UNCHANGED <<disk, local, start, sanitizerVars>>
     \/ UltimateThrow

\* for (i ...) INSERT (migration.hash, migration.folderMillis)
UltimateInsert ==
  /\ step = "insert"
  /\ IF local.i > Len(local.migrations)
       THEN Goto("verify")
       ELSE \/ /\ db' = Inserted(db, Sha(local.migrations[local.i]),
                                 local.migrations[local.i])
               /\ local' = [local EXCEPT !.i = @ + 1]
               /\ UNCHANGED <<step, disk, start, sanitizerVars>>
            \/ UltimateThrow

\* (variant) only too few records fail the verification
CountMismatch_fewer(count, n) == count < n

\* if (insertedCount !== migrations.length) throw
CountMismatch(count, n) == count # n

\* SELECT COUNT(*) and the insertion verification
UltimateVerify ==
  /\ step = "verify"
  /\ \/ /\ ~CountMismatch(Len(db.table.rows), Len(local.migrations))
        /\ step' = "migrate"
        /\ local' = [local EXCEPT !.verified = TRUE, !.atVerify = db.table.rows]
        /\ UNCHANGED <<disk, db, start, sanitizerVars>>
     \/ UltimateThrow

\* try { migrate } catch: an acceptable message is logged, any other error
\* is thrown again
UltimateMigrate ==
  /\ step = "migrate"
  /\ \/ /\ db' \in MigrateOutcomes(disk, db)
        /\ step' = "final"
        /\ UNCHANGED <<disk, local, start, sanitizerVars>>
     \/ Goto("final")
     \/ UltimateThrow

\* the final SELECT and the report of success; main returns
UltimateFinal ==
  /\ step = "final"
  /\ \/ Exit(0)
     \/ UltimateThrow

UltimateNext ==
  \/ UltimateRead
  \/ UltimateSelect
  \/ UltimatePrepare
  \/ UltimateTable
  \/ UltimateInsert
  \/ UltimateVerify
  \/ UltimateMigrate
  \/ UltimateFinal

SpecUltimate == UltimateInit /\ [][UltimateNext]_vars

\* The rows the table held at the start are still its first rows.
OldRowsKept ==
  /\ Len(db.table.rows) >= Len(start.db.table.rows)
  /\ SubSeq(db.table.rows, 1, Len(start.db.table.rows)) = start.db.table.rows

\* C24: whenever main() gets past the insertion verification, the table held
\* at that point exactly one record per entry of readMigrationFiles with
\* that entry's hash and no record from before the run; when the initial
\* SELECT fails although the table exists and holds records, the records
\* are not cleared and the script ends with exit status 1.
C24_VerifiedTableExact ==
  /\ local.verified => local.atVerify = RecordsOf(start.disk.journal)
  /\ (local.selectFailed /\ start.db.table.rows # <<>>) =>
       /\ OldRowsKept
       /\ ~local.verified
       /\ step = "exit" => local.exitCode = 1

\* the first SELECT failed on a table with records, every migration was
\* inserted after them, and the verification ended the script with status 1
C24_Witness ==
  /\ step = "exit"
  /\ local.exitCode = 1
  /\ local.selectFailed
  /\ start.db.table.rows # <<>>
  /\ Len(start.disk.journal) > 0
  /\ Len(db.table.rows) = Len(start.db.table.rows) + Len(start.disk.journal)

\* ------ Comprehensive diagnosis, 5. Hash Comparison Analysis
\* ------ (diagnose-migration-comprehensive.ts, 132-172)
\* local.report: what the section logs, "none" until it has logged.
DiagnoseInit ==
  /\ SanitizerIdle
  /\ step = "read"
  /\ disk \in ScriptDisks
  /\ db \in ScriptDbs
  /\ local = [fileHashes |-> <<>>, dbHashes |-> <<>>, maxCheck |-> 0, i |-> 0,
              matches |-> 0, report |-> "none"]
  /\ start = [disk |-> disk, db |-> db]

\* catch (error) { console.error('Hash comparison failed:', error) }
DiagnoseCatch ==
  /\ step' = "done"
  /\ local' = [local EXCEPT !.report = "failed"]
  /\ UNCHANGED <<disk, db, start, sanitizerVars>>

\* SELECT ... ORDER BY created_at ASC: the rows in an order of ascending
\* created_at; rows with equal created_at come in any order
OrderedByCreatedAt(rows) ==
  IF rows = <<>> THEN {<<>>}
  ELSE {[i \in DOMAIN rows |-> rows[f[i]]] :
          f \in {g \in Permutations(DOMAIN rows) :
                   \A i, j \in DOMAIN rows :
                     i < j => rows[g[i]].created_at <= rows[g[j]].created_at}}

HashesOf(rows) == [i \in DOMAIN rows |-> rows[i].hash]

\* readMigrationFiles, fileHashes = migrations.map((m) => m.hash)
DiagnoseRead ==
  /\ step = "read"
  /\ \/ /\ Readable(disk)
        /\ step' = "select"
        /\ local' = [local EXCEPT !.fileHashes = HashesOf(RecordsOf(disk.journal))]
        /\ UNCHANGED <<disk, db, start, sanitizerVars>>
     \/ DiagnoseCatch

Min(a, b) == IF a <= b THEN a ELSE b

\* the SELECT, dbHashes, matches = 0, maxCheck = Math.min(...)
DiagnoseSelect ==
  /\ step = "select"
  /\ \/ /\ db.table.exists
        /\ \E rows \in OrderedByCreatedAt(db.table.rows) :
             local' = [local EXCEPT
               !.dbHashes = HashesOf(rows),
               !.maxCheck = Min(Len(rows), Len(local.fileHashes)),
               !.matches = 0,
               !.i = 0]
        /\ step' = "compare"
        /\ UNCHANGED <<disk, db, start, sanitizerVars>>
     \/ DiagnoseCatch

\* for (let i = 0; i < maxCheck; i++) { if (dbHash === fileHash) matches++ }
DiagnoseCompare ==
  /\ step = "compare"
  /\ IF local.i < local.maxCheck
       THEN /\ local' = [local EXCEPT
                 !.matches = IF local.dbHashes[local.i + 1] = local.fileHashes[local.i + 1]
                               THEN @ + 1 ELSE @,
                 !.i = @ + 1]
            /\ UNCHANGED <<step, disk, db, start, sanitizerVars>>
       ELSE Goto("report")

\* (variant) the lengths of the two lists are not compared
PerfectAlignment_noLength(matches, maxCheck, nDb, nFile) == matches = maxCheck

\* matches === maxCheck && dbHashes.length === fileHashes.length
PerfectAlignment(matches, maxCheck, nDb, nFile) == matches = maxCheck /\ nDb = nFile

\* 'Perfect hash alignment' or 'Hash misalignment detected'
DiagnoseReport ==
  /\ step = "report"
  /\ step' = "done"
  /\ local' = [local EXCEPT !.report =
       IF PerfectAlignment(local.matches, local.maxCheck,
                           Len(local.dbHashes), Len(local.fileHashes))
         THEN "perfect" ELSE "misaligned"]
  /\ UNCHANGED <<disk, db, start, sanitizerVars>>

DiagnoseNext == DiagnoseRead \/ DiagnoseSelect \/ DiagnoseCompare \/ DiagnoseReport

SpecDiagnose == DiagnoseInit /\ [][DiagnoseNext]_vars

\* The positions below the shorter length at which the two lists agree.
Agreeing(a, b) == {i \in 1..Min(Len(a), Len(b)) : a[i] = b[i]}

\* C25: 'Perfect hash alignment' is reported if and only if the hashes read
\* from the table (ordered by created_at) equal the hashes of the migration
\* files, element by element and in length; otherwise 'Hash misalignment
\* detected' is reported; the reported match count is the number of
\* positions below min(length) at which the two sequences agree.
C25_ReportMatchesComparison ==
  (step = "done" /\ local.report # "failed") =>
    /\ local.dbHashes \in {HashesOf(r) : r \in OrderedByCreatedAt(start.db.table.rows)}
    /\ local.fileHashes = HashesOf(RecordsOf(start.disk.journal))
    /\ local.report = IF local.dbHashes = local.fileHashes
                        THEN "perfect" ELSE "misaligned"
    /\ local.maxCheck = Min(Len(local.dbHashes), Len(local.fileHashes))
    /\ local.matches = Cardinality(Agreeing(local.dbHashes, local.fileHashes))

\* every compared position agrees but the table holds fewer records than
\* there are migration files: misalignment is reported
C25_Witness ==
  /\ step = "done"
  /\ local.report = "misaligned"
  /\ local.maxCheck > 0
  /\ local.matches = local.maxCheck
  /\ Len(local.dbHashes) < Len(local.fileHashes)

====
